---- MODULE Spec2Model ----
(***************************************************************************)
(* A model of scripts/libby-book-monitor.py: the persisted watchlists, the *)
(* commands watch / unwatch / list / check, and the check run's loop over  *)
(* the watchlist with its catalogue queries and rate-limit pauses.         *)
(*                                                                         *)
(* Strings that the program case-folds, trims or searches (titles) are     *)
(* sequences of one-character strings, so that lower(), strip() and the    *)
(* substring test are computed.  Other strings (author, library, profile)  *)
(* are opaque.  The wall clock is the calendar day.                        *)
(***************************************************************************)
EXTENDS Integers, Sequences, FiniteSets, TLC

\* ------------------------------------------------------------------ bounds

\* Days run from 0 to MaxDay.
MaxDay == 1

\* ------------------------------------------------------------- input sets

\* Python's None for last_checked / found_date (dates are days >= 0).
None == -1

Du == <<"D", "u">>
du == <<"d", "u">>
DU == <<"D", "U">>
Em == <<"E", "m">>

\* The (title, --author, --library) command lines given to watch, and the
\* titles given to unwatch; "" is an omitted option.
WatchInputs == {<<Du, "", "">>, <<du, "fh", "nypl">>, <<Em, "", "">>}
UnwatchTitles == {DU, du, Em}

\* --profile values; "" is an omitted option.
NoProfile == ""
Profiles == {NoProfile, "kid"}

\* Titles and records the catalogue may return.
ItemTitles == {<<" ", "D", "U", "N">>, <<"e">>}
Items == [title : ItemTitles, isOwned : BOOLEAN, isAvailable : BOOLEAN]

\* A catalogue response: a failure (search_library returns None), or the
\* parsed document's items: none, one, or two editions of one title with the
\* unavailable one first.
Failure == [failed |-> TRUE, items |-> <<>>]
Response(items) == [failed |-> FALSE, items |-> items]
Responses ==
    {Failure, Response(<<>>)}
    \cup {Response(<<i>>) : i \in Items}
    \cup {Response(<<i, [title |-> i.title, isOwned |-> TRUE, isAvailable |-> TRUE]>>) :
             i \in {x \in Items : ~x.isAvailable}}

\* ------------------------------------------------------------- strings

LowerChar(c) ==
    CASE c = "D" -> "d"
      [] c = "U" -> "u"
      [] c = "N" -> "n"
      [] c = "E" -> "e"
      [] c = "M" -> "m"
      [] c = "T" -> "t"
      [] c = "H" -> "h"
      [] c = "F" -> "f"
      [] c = "B" -> "b"
      [] OTHER -> c

\* str.lower()
Lower(s) == [i \in 1..Len(s) |-> LowerChar(s[i])]

IsSpace(c) == c \in {" ", "\t", "\n"}

RECURSIVE LStrip(_)
LStrip(s) == IF s # <<>> /\ IsSpace(Head(s)) THEN LStrip(Tail(s)) ELSE s

RECURSIVE RStrip(_)
RStrip(s) ==
    IF s # <<>> /\ IsSpace(s[Len(s)]) THEN RStrip(SubSeq(s, 1, Len(s) - 1)) ELSE s

\* str.strip()
Strip(s) == RStrip(LStrip(s))

\* Python's  a in b  on strings.
In(a, b) ==
    \E i \in 0..(Len(b) - Len(a)) : SubSeq(b, i + 1, i + Len(a)) = a

\* title_matches testing one direction only: the search title in the result's.
title_matches_one_way(search_title, result_title) ==
    In(Strip(Lower(search_title)), Strip(Lower(result_title)))

\* title_matches: lower-cased, trimmed, one contained in the other.
title_matches(search_title, result_title) ==
    LET a == Strip(Lower(search_title))
        b == Strip(Lower(result_title))
    IN  In(a, b) \/ In(b, a)

\* ------------------------------------------------------------- storage

\* get_watchlist_path without the profile suffix: one file for every profile.
get_watchlist_path_shared(profile) == <<"watchlist.json">>

get_watchlist_path(profile) ==
    IF profile # "" THEN <<"watchlist-", profile, ".json">> ELSE <<"watchlist.json">>

Paths == {get_watchlist_path(p) : p \in Profiles}

NoFile == [exists |-> FALSE, books |-> <<>>]

\* The document load_watchlist returns: {"books": []} when there is no file.
load_watchlist(d, profile) == d[get_watchlist_path(profile)].books

\* save_watchlist keeping the persisted entries the written document lacks.
save_watchlist_merge(d, books, profile) ==
    LET kept == SelectSeq(d[get_watchlist_path(profile)].books,
                          LAMBDA b : \A i \in 1..Len(books) : books[i].title # b.title)
    IN  [d EXCEPT ![get_watchlist_path(profile)] = [exists |-> TRUE, books |-> books \o kept]]

\* The disk after save_watchlist overwrites the profile's file.
save_watchlist(d, books, profile) ==
    [d EXCEPT ![get_watchlist_path(profile)] = [exists |-> TRUE, books |-> books]]

VARIABLES
    clock,      \* the calendar day datetime.now() falls on
    disk,       \* path -> the persisted watchlist document
    pc,         \* "idle", or the check run's position: "loop", "finish"
    args,       \* the command line of the current (or last) invocation
    watchlist,  \* cmd_check: the loaded document's books, mutated in place
    idx,        \* cmd_check: the loop's position (1-based)
    total,      \* cmd_check: len(watchlist["books"]) at the start
    new_finds,  \* cmd_check: the (book, matched_item) pairs, books by position
    stdout,     \* the lines the current (or last) invocation printed
    stderr,     \* the number of lines it wrote to the error stream
    rc,         \* the exit code of the last finished invocation
    calls,      \* the search_library / time.sleep / save_watchlist calls of the invocation
    announced,  \* history: keys appended to new_finds with no completed no-match round since
    other,      \* a second, overlapping invocation (cmd_watch): its position and document
    probe       \* title_matches on its own: the two arguments and the value returned

vars == <<clock, disk, pc, args, watchlist, idx, total, new_finds,
          stdout, stderr, rc, calls, announced, other, probe>>


\* ------------------------------------------------------------- helpers

DefaultLibrary == "telaviv"

Line(msg, title, n) == [msg |-> msg, title |-> title, n |-> n]

\* A call the invocation made: search_library (ok: it returned a document),
\* time.sleep or save_watchlist.
Call(op, i, ok) == [op |-> op, idx |-> i, ok |-> ok]

Args(command, profile, title, author, library, notify) ==
    [command |-> command, profile |-> profile, title |-> title,
     author |-> author, library |-> library, notify |-> notify]

\* The history key of an entry: its file and its case-folded title.
Key(profile, title) == <<get_watchlist_path(profile), Lower(title)>>

\* datetime.now().strftime("%Y-%m-%d") and ...("%Y-%m-%dT%H:%M:%S"), at the
\* clock's granularity.
Today == clock
Now == clock

\* An invocation other than check has none of cmd_check's locals.
NoCheckLocals ==
    /\ watchlist' = <<>>
    /\ idx' = 0
    /\ total' = 0
    /\ new_finds' = <<>>

\* No second invocation is in flight, and none has saved. Otherwise: its
\* position ("loaded", "saved"), the title it adds, the document in its hands,
\* whether its load-to-save span overlaps that of a check run, and which of
\* the two saved last ("check", "watch").
NoOther == [pc |-> "none", title |-> <<>>, books |-> <<>>, overlap |-> FALSE, last |-> ""]

\* title_matches has not been called on its own.
NoProbe == [a |-> <<>>, b |-> <<>>, done |-> FALSE, result |-> FALSE]

\* The step belongs to one invocation running by itself.
Alone == UNCHANGED <<other, probe>>

\* ------------------------------------------------------------- watch

AlreadyWatchingExact(books, title) ==
    \E i \in 1..Len(books) : books[i].title = title

\* cmd_watch's scan for an entry with the same title, ignoring case.
AlreadyWatching(books, title) ==
    \E i \in 1..Len(books) : Lower(books[i].title) = Lower(title)

NewBook(title, author, library) ==
    [title |-> title, author |-> author, library |-> library, added |-> Today,
     last_status |-> "not_found", last_checked |-> None, found_date |-> None]

WatchOutput(title, author, library) ==
    <<Line("Added to watchlist", title, 0)>>
    \o (IF author # "" THEN <<Line("  Author", <<>>, 0)>> ELSE <<>>)
    \o <<Line("  Library", <<>>, 0)>>

WatchOverwrite(p, t, a, l) ==
    LET books == load_watchlist(disk, p)
        library == IF l # "" THEN l ELSE DefaultLibrary
        kept == SelectSeq(books, LAMBDA b : Lower(b.title) # Lower(t))
    IN  /\ pc = "idle"
        /\ args' = Args("watch", p, t, a, l, FALSE)
        /\ disk' = save_watchlist(disk, Append(kept, NewBook(t, a, library)), p)
        /\ calls' = <<Call("save", 0, TRUE)>>
        /\ stdout' = WatchOutput(t, a, library)
        /\ announced' = announced \ {Key(p, t)}
        /\ stderr' = 0
        /\ rc' = 0
        /\ NoCheckLocals
        /\ UNCHANGED <<clock, pc>>

Watch(p, t, a, l) ==
    LET books == load_watchlist(disk, p)
        library == IF l # "" THEN l ELSE DefaultLibrary
    IN  /\ pc = "idle"
        /\ args' = Args("watch", p, t, a, l, FALSE)
        /\ IF AlreadyWatching(books, t)
           THEN /\ stdout' = <<Line("Already watching", t, 0)>>
                /\ calls' = <<>>
                /\ UNCHANGED disk
           ELSE /\ disk' = save_watchlist(disk, Append(books, NewBook(t, a, library)), p)
                /\ calls' = <<Call("save", 0, TRUE)>>
                /\ stdout' = WatchOutput(t, a, library)
        /\ stderr' = 0
        /\ rc' = 0
        /\ NoCheckLocals
        /\ UNCHANGED <<clock, pc, announced>>

\* ------------------------------------------------------------- unwatch

\* The list comprehension with its test turned round: keeps what it should drop.
RemainingInverted(books, title) ==
    SelectSeq(books, LAMBDA b : Lower(b.title) = Lower(title))

\* The list comprehension of cmd_unwatch.
Remaining(books, title) ==
    SelectSeq(books, LAMBDA b : Lower(b.title) # Lower(title))

UnwatchAlwaysZero(p, t) ==
    LET books == load_watchlist(disk, p)
        before == Len(books)
        kept == Remaining(books, t)
    IN  /\ pc = "idle"
        /\ args' = Args("unwatch", p, t, "", "", FALSE)
        /\ disk' = save_watchlist(disk, kept, p)
        /\ calls' = <<Call("save", 0, TRUE)>>
        /\ stdout' = <<Line("Removed", t, 0)>>
        /\ rc' = 0
        /\ announced' = announced \ {Key(p, t)}
        /\ stderr' = 0
        /\ NoCheckLocals
        /\ UNCHANGED <<clock, pc>>

Unwatch(p, t) ==
    LET books == load_watchlist(disk, p)
        before == Len(books)
        kept == Remaining(books, t)
    IN  /\ pc = "idle"
        /\ args' = Args("unwatch", p, t, "", "", FALSE)
        /\ IF Len(kept) < before
           THEN /\ disk' = save_watchlist(disk, kept, p)
                /\ calls' = <<Call("save", 0, TRUE)>>
                /\ stdout' = <<Line("Removed", t, 0)>>
                /\ rc' = 0
                /\ announced' = announced \ {Key(p, t)}
           ELSE /\ stdout' = <<Line("Not found in watchlist", t, 0)>>
                /\ calls' = <<>>
                /\ rc' = 1
                /\ UNCHANGED <<disk, announced>>
        /\ stderr' = 0
        /\ NoCheckLocals
        /\ UNCHANGED <<clock, pc>>

\* ------------------------------------------------------------- list

RECURSIVE ListLines(_, _)
ListLines(books, i) ==
    IF i > Len(books) THEN <<>>
    ELSE <<Line(IF books[i].last_status = "found" THEN "*" ELSE " ", books[i].title, i)>>
         \o (IF books[i].author # "" THEN <<Line("       Author", <<>>, 0)>> ELSE <<>>)
         \o <<Line("       Library | Status | Checked", <<>>, books[i].last_checked)>>
         \o (IF books[i].found_date # None
             THEN <<Line("       Found on", <<>>, books[i].found_date)>> ELSE <<>>)
         \o <<Line("", <<>>, 0)>>
         \o ListLines(books, i + 1)

List(p) ==
    LET books == load_watchlist(disk, p)
    IN  /\ pc = "idle"
        /\ args' = Args("list", p, <<>>, "", "", FALSE)
        /\ stdout' = IF books = <<>>
                     THEN <<Line("Watchlist is empty.", <<>>, 0)>>
                     ELSE <<Line("Watchlist", <<>>, Len(books)), Line("", <<>>, 0)>>
                          \o ListLines(books, 1)
        /\ calls' = <<>>
        /\ stderr' = 0
        /\ rc' = 0
        /\ NoCheckLocals
        /\ UNCHANGED <<clock, disk, pc, announced>>


\* ------------------------------------------------------------- check

IsGenuineAvailable(title, item) ==
    title_matches(title, item.title) /\ item.isOwned /\ item.isAvailable

\* The test of cmd_check's scan: a title match on an owned item.
IsGenuine(title, item) ==
    title_matches(title, item.title) /\ item.isOwned

\* cmd_check's scan over the items from position i on: the position of the
\* item it breaks at, 0 when it finds none.
RECURSIVE ScanFrom(_, _, _)
ScanFrom(title, items, i) ==
    IF i > Len(items) THEN 0
    ELSE IF IsGenuine(title, items[i]) THEN i
    ELSE ScanFrom(title, items, i + 1)

\* The scan without its break: the last owned item with a matching title.
LastMatch(title, items) ==
    LET hits == {k \in 1..Len(items) : IsGenuine(title, items[k])}
    IN  IF hits = {} THEN 0 ELSE CHOOSE k \in hits : \A j \in hits : j <= k

FirstMatch(title, items) == ScanFrom(title, items, 1)

IsNewFindAnyStatus(found, prev_status) == found

\* The first branch of cmd_check's status update.
IsNewFind(found, prev_status) == found /\ prev_status = "not_found"

UpdateBookForgetsFound(book, found, prev_status) ==
    [book EXCEPT
        !.last_checked = Now,
        !.last_status = IF found /\ ~IsNewFind(found, prev_status) THEN "found" ELSE "not_found",
        !.found_date = IF IsNewFind(found, prev_status) THEN Today ELSE @]

\* UpdateBook also refreshing the day the book was added.
UpdateBookResetsAdded(book, found, prev_status) ==
    [book EXCEPT
        !.added = Today,
        !.last_checked = Now,
        !.last_status = IF found THEN "found" ELSE "not_found",
        !.found_date = IF IsNewFind(found, prev_status) THEN Today ELSE @]

\* UpdateBook dropping the find date of a book that is no longer found.
UpdateBookClearsFoundDate(book, found, prev_status) ==
    [book EXCEPT
        !.last_checked = Now,
        !.last_status = IF found THEN "found" ELSE "not_found",
        !.found_date = IF IsNewFind(found, prev_status) THEN Today
                       ELSE IF found THEN @ ELSE None]

\* UpdateBook without the last_checked stamp.
UpdateBookNoStamp(book, found, prev_status) ==
    [book EXCEPT
        !.last_status = IF found THEN "found" ELSE "not_found",
        !.found_date = IF IsNewFind(found, prev_status) THEN Today ELSE @]

\* The book after a completed query.
UpdateBook(book, found, prev_status) ==
    [book EXCEPT
        !.last_checked = Now,
        !.last_status = IF found THEN "found" ELSE "not_found",
        !.found_date = IF IsNewFind(found, prev_status) THEN Today ELSE @]

\* The claims' notion of a genuine match in a response: some item is owned
\* and its title matches.
GenuineIn(title, items) ==
    \E k \in 1..Len(items) : title_matches(title, items[k].title) /\ items[k].isOwned

BookAfterStampOnFailure(book, r) ==
    IF r.failed THEN [book EXCEPT !.last_checked = Now]
    ELSE UpdateBook(book, FirstMatch(book.title, r.items) # 0, book.last_status)

\* The book after the loop body received response r for it: untouched when
\* the query failed (continue).
BookAfter(book, r) ==
    IF r.failed THEN book
    ELSE UpdateBook(book, FirstMatch(book.title, r.items) # 0, book.last_status)

\* new_finds after the loop body received response r for the book at i.
FindsAfter(finds, book, i, r) ==
    LET m == FirstMatch(book.title, r.items)
    IN  IF ~r.failed /\ IsNewFind(m # 0, book.last_status)
        THEN Append(finds, [book |-> i, item |-> r.items[m]])
        ELSE finds

\* The calls after the loop body for position i of n: the query, and the
\* pause the body ends with when the query completed and i is not the last.
CallsAfter(cs, i, n, r) ==
    Append(cs, Call("search", i, ~r.failed))
    \o (IF ~r.failed /\ i < n THEN <<Call("sleep", i, TRUE)>> ELSE <<>>)

\* The loop body of cmd_check on response r.
Iterate(r) ==
    LET book == watchlist[idx]
        key == Key(args.profile, book.title)
    IN  /\ idx' = idx + 1
        /\ watchlist' = [watchlist EXCEPT ![idx] = BookAfter(book, r)]
        /\ new_finds' = FindsAfter(new_finds, book, idx, r)
        /\ calls' = CallsAfter(calls, idx, total, r)
        /\ stderr' = IF r.failed THEN stderr + 1 ELSE stderr
        /\ announced' = IF new_finds' # new_finds THEN announced \cup {key}
                        ELSE IF r.failed \/ GenuineIn(book.title, r.items) THEN announced
                        ELSE announced \ {key}

CheckStart(p, n) ==
    LET books == load_watchlist(disk, p)
    IN  /\ pc = "idle"
        /\ args' = Args("check", p, <<>>, "", "", n)
        /\ calls' = <<>>
        /\ stderr' = 0
        /\ IF books = <<>>
           THEN /\ stdout' = IF ~n THEN <<Line("Watchlist is empty.", <<>>, 0)>> ELSE <<>>
                /\ rc' = 0
                /\ NoCheckLocals
                /\ UNCHANGED pc
           ELSE /\ watchlist' = books
                /\ new_finds' = <<>>
                /\ total' = Len(books)
                /\ idx' = 1
                /\ stdout' = <<>>
                /\ pc' = "loop"
                /\ UNCHANGED rc
        /\ UNCHANGED <<clock, disk, announced>>

\* CheckIter with a save_watchlist call at the end of the loop body.
CheckIterSaving ==
    /\ pc = "loop"
    /\ idx <= total
    /\ \E r \in Responses : Iterate(r)
    /\ disk' = save_watchlist(disk, watchlist', args.profile)
    /\ UNCHANGED <<clock, pc, args, total, stdout, rc>>

CheckIter ==
    /\ pc = "loop"
    /\ idx <= total
    /\ \E r \in Responses : Iterate(r)
    /\ UNCHANGED <<clock, disk, pc, args, total, stdout, rc>>

RECURSIVE FindLines(_, _, _)
FindLines(books, finds, i) ==
    IF i > Len(finds) THEN <<>>
    ELSE <<Line("  title - author", finds[i].item.title, 0),
           Line("    Library | Copies | Available", <<>>,
                IF finds[i].item.isAvailable THEN 1 ELSE 0),
           Line("", <<>>, 0)>>
         \o FindLines(books, finds, i + 1)

\* The lines of cmd_check's "Output" section.
ReportLines(notify_only, books, finds, n) ==
    IF notify_only
    THEN IF finds # <<>>
         THEN <<Line("New on Libby:", <<>>, 0)>> \o FindLines(books, finds, 1)
         ELSE <<>>
    ELSE <<Line("Checked book(s).", <<>>, n)>>
         \o (IF finds # <<>>
             THEN <<Line("new addition(s) found!", <<>>, Len(finds))>> ELSE <<>>)

\* The lines of cmd_check's "Remind about found books" section.
DigestLines(books) ==
    LET found_books == SelectSeq(books, LAMBDA b : b.last_status = "found")
    IN  IF found_books # <<>>
        THEN <<Line("book(s) already in catalogue:", <<>>, Len(found_books))>>
             \o [i \in 1..Len(found_books) |-> Line("  - ", found_books[i].title, 0)]
             \o <<Line("Consider removing them with 'unwatch'.", <<>>, 0)>>
        ELSE <<>>

\* cmd_check after its loop: the save, the output, the return.
CheckFinish ==
    /\ pc = "loop"
    /\ idx > total
    /\ disk' = save_watchlist(disk, watchlist, args.profile)
    /\ calls' = Append(calls, Call("save", 0, TRUE))
    /\ stdout' = ReportLines(args.notify, watchlist, new_finds, total) \o DigestLines(watchlist)
    /\ rc' = 0
    /\ pc' = "idle"
    /\ UNCHANGED <<clock, args, watchlist, idx, total, new_finds, stderr, announced>>

\* ------------------------------------------------------------- environment

\* Midnight passes, between invocations: a run is short against a day.
Tick ==
    /\ pc = "idle"
    /\ clock < MaxDay
    /\ clock' = clock + 1
    /\ UNCHANGED <<disk, pc, args, watchlist, idx, total, new_finds,
                   stdout, stderr, rc, calls, announced>>

\* ------------------------------------------------------------- specification

\* Nothing persisted, no invocation made.
Fresh ==
    /\ clock = 0
    /\ disk = [f \in Paths |-> NoFile]
    /\ pc = "idle"
    /\ args = Args("", NoProfile, <<>>, "", "", FALSE)
    /\ watchlist = <<>>
    /\ idx = 0
    /\ total = 0
    /\ new_finds = <<>>
    /\ stdout = <<>>
    /\ stderr = 0
    /\ rc = 0
    /\ calls = <<>>
    /\ announced = {}

Init ==
    /\ Fresh
    /\ other = NoOther
    /\ probe = NoProbe

\* Invocations on the default watchlist, one after the other.
Next ==
    \/ \E w \in WatchInputs : Watch(NoProfile, w[1], w[2], w[3]) /\ Alone
    \/ \E t \in UnwatchTitles : Unwatch(NoProfile, t) /\ Alone
    \/ List(NoProfile) /\ Alone
    \/ \E n \in BOOLEAN : CheckStart(NoProfile, n) /\ Alone
    \/ CheckIter /\ Alone
    \/ CheckFinish /\ Alone
    \/ Tick /\ Alone

Spec == Init /\ [][Next]_vars

\* ------------------------------------------------- overlapping invocations

\* A second process runs cmd_watch on the default watchlist while the first is
\* anywhere: its load_watchlist and duplicate scan, and the append to the
\* document in its hands. It returns at once, writing nothing, when the title
\* is already there.
OtherWatchLoad(t, a, l) ==
    LET books == load_watchlist(disk, NoProfile)
    IN  /\ other.pc # "loaded"
        /\ ~AlreadyWatching(books, t)
        /\ other' = [pc |-> "loaded", title |-> t,
                     books |-> Append(books, NewBook(t, a, l)),
                     overlap |-> (pc = "loop"), last |-> ""]
        /\ UNCHANGED <<clock, disk, pc, args, watchlist, idx, total, new_finds,
                       stdout, stderr, rc, calls, announced, probe>>

\* The second process's save_watchlist call and return.
OtherWatchSave ==
    /\ other.pc = "loaded"
    /\ disk' = save_watchlist(disk, other.books, NoProfile)
    /\ other' = [other EXCEPT !.pc = "saved", !.last = "watch"]
    /\ UNCHANGED <<clock, pc, args, watchlist, idx, total, new_finds,
                   stdout, stderr, rc, calls, announced, probe>>

\* Invocations that run with no other in flight.
OverlapSetup ==
    /\ other.pc # "loaded"
    /\ \/ Watch(NoProfile, Du, "", "")
       \/ \E t \in {DU, Em} : Unwatch(NoProfile, t)
    /\ other' = NoOther
    /\ UNCHANGED probe

\* cmd_check starts: a second invocation in flight overlaps it, one that has
\* saved came before it.
OverlapCheckStart ==
    /\ CheckStart(NoProfile, FALSE)
    /\ other' = IF other.pc = "loaded" THEN [other EXCEPT !.overlap = TRUE] ELSE NoOther
    /\ UNCHANGED probe

OverlapCheckFinish ==
    /\ CheckFinish
    /\ other' = IF other.pc = "none" THEN other ELSE [other EXCEPT !.last = "check"]
    /\ UNCHANGED probe

NextOverlap ==
    \/ OverlapSetup
    \/ OverlapCheckStart
    \/ CheckIter /\ Alone
    \/ OverlapCheckFinish
    \/ Tick /\ Alone
    \/ OtherWatchLoad(Em, "", "")
    \/ OtherWatchSave

SpecOverlap == Init /\ [][NextOverlap]_vars

\* ------------------------------------------------- watchlists of three

\* A third title, and the titles of a watchlist of up to three books as given
\* to watch and, in another case, to unwatch.
Un == <<"U", "n">>
ThreeTitles == {Du, Em, Un}
ThreeUnwatchTitles == {DU, Em, <<"u", "N">>}

\* watch, unwatch and check on the default watchlist within one day.
NextUnwatch ==
    \/ \E t \in ThreeTitles : Watch(NoProfile, t, "", "") /\ Alone
    \/ \E t \in ThreeUnwatchTitles : Unwatch(NoProfile, t) /\ Alone
    \/ CheckStart(NoProfile, FALSE) /\ Alone
    \/ CheckIter /\ Alone
    \/ CheckFinish /\ Alone

SpecUnwatch == Init /\ [][NextUnwatch]_vars

\* ------------------------------------------------- title_matches alone

\* The longest title given to title_matches, and the characters of titles:
\* a letter in both cases, a second letter, a blank.
MaxLen == 3
Alphabet == {"D", "d", "u", " "}
Strings == UNION {[1..n -> Alphabet] : n \in 0..MaxLen}

InitMatch ==
    /\ Fresh
    /\ other = NoOther
    /\ probe \in [a : Strings, b : Strings, done : {FALSE}, result : {FALSE}]

\* One call of title_matches.
Match ==
    /\ ~probe.done
    /\ probe' = [probe EXCEPT !.done = TRUE, !.result = title_matches(probe.a, probe.b)]
    /\ UNCHANGED <<clock, disk, pc, args, watchlist, idx, total, new_finds,
                   stdout, stderr, rc, calls, announced, other>>

NextMatch == Match

SpecMatch == InitMatch /\ [][NextMatch]_vars

\* A started check run goes on: a query returns or times out, the loop body and
\* the code after the loop run to their end.
SpecFair == Spec /\ WF_vars(CheckIter /\ Alone) /\ WF_vars(CheckFinish /\ Alone)

\* Invocations with --profile and without it, one after the other, each
\* watchlist holding at most the one book.
ProfileWatchInputs == {<<Du, "", "">>, <<du, "fh", "nypl">>}

NextProfiles ==
    \/ \E p \in Profiles, w \in ProfileWatchInputs : Watch(p, w[1], w[2], w[3]) /\ Alone
    \/ \E p \in Profiles : Unwatch(p, DU) /\ Alone
    \/ \E p \in Profiles : List(p) /\ Alone
    \/ \E p \in Profiles, n \in BOOLEAN : CheckStart(p, n) /\ Alone
    \/ CheckIter /\ Alone
    \/ CheckFinish /\ Alone
    \/ Tick /\ Alone

SpecProfiles == Init /\ [][NextProfiles]_vars


\* ------------------------------------------------------------- claims

\* The persisted books of the invocation's profile.
Persisted == load_watchlist(disk, args.profile)

\* cmd_check has left its loop and is about to save.
LoopDone == pc = "loop" /\ idx > total

\* The invocation that just returned was a check run over a non-empty watchlist.
CheckReturned == pc = "idle" /\ args.command = "check" /\ total > 0

\* A step in which an invocation of command c starts; watch, unwatch and list
\* also end in it.
CommandStep(c) == pc = "idle" /\ args'.command = c /\ clock' = clock

\* The number of calls of kind op the invocation has made.
Count(op) == Cardinality({k \in 1..Len(calls) : calls[k].op = op})

\* C1: once an entry's found_date is set, no later check run changes its
\* value: the document a check run saves keeps every non-null found_date of
\* the document it replaces.
C1_FoundDateMonotone ==
    [][(LoopDone /\ pc' = "idle") =>
          \A i \in 1..Len(Persisted) :
              Persisted[i].found_date # None =>
                  load_watchlist(disk', args.profile)[i].found_date
                      = Persisted[i].found_date]_vars

\* C2: a check run over N >= 1 entries pauses exactly N - 1 times, whatever
\* the outcome of each query, and never before the first or after the last
\* query.
C2_PausesAreNMinusOne ==
    /\ LoopDone => Count("sleep") = total - 1
    /\ pc = "loop" /\ calls # <<>> =>
          /\ calls[1].op = "search"
          /\ (idx > total => calls[Len(calls)].op = "search")

\* C3: in notify mode a check run with no new find prints nothing, whatever
\* the watchlist holds.
C3_NotifySilentWithoutNewFinds ==
    (pc = "idle" /\ args.command = "check" /\ args.notify /\ new_finds = <<>>)
        => stdout = <<>>


\* cmd_check is about to run its loop body.
InLoop == pc = "loop" /\ idx <= total

\* C4: in a check run an entry is appended to the newly-found collection if
\* and only if its status before the run (the persisted one) was NOT_FOUND
\* and its query completed with an owned, title-matching item; the entry
\* appended is the one queried.
C4_NewFindIff ==
    InLoop =>
        \A r \in Responses :
            LET after == FindsAfter(new_finds, watchlist[idx], idx, r)
            IN  /\ (after # new_finds) <=>
                      (/\ Persisted[idx].last_status = "not_found"
                       /\ ~r.failed
                       /\ GenuineIn(Persisted[idx].title, r.items))
                /\ after # new_finds =>
                      /\ Len(after) = Len(new_finds) + 1
                      /\ SubSeq(after, 1, Len(new_finds)) = new_finds
                      /\ after[Len(after)].book = idx
                /\ \A k \in 1..Len(new_finds) : new_finds[k].book < idx

\* A finished loop over two entries, both FOUND, of which one is a new find
\* and the other was FOUND before the run.
C4_Witness ==
    /\ LoopDone
    /\ total = 2
    /\ Len(new_finds) = 1
    /\ \A i \in 1..2 : watchlist[i].last_status = "found"
    /\ \E i \in 1..2 : Persisted[i].last_status = "found"

\* C5: over sequential check runs an entry is never appended to the
\* newly-found collection again unless, since it last was, a run completed
\* its query with no genuine match; failed queries do not count.
C5_NoRepeatedNewFind ==
    [][(pc = "loop" /\ idx <= total /\ new_finds' # new_finds) =>
          Key(args.profile, watchlist[idx].title) \notin announced]_vars

\* A finished loop that reports nothing although an entry announced on an
\* earlier day is FOUND again.
C5_Witness ==
    /\ LoopDone
    /\ new_finds = <<>>
    /\ \E i \in 1..total :
          /\ watchlist[i].last_status = "found"
          /\ Key(args.profile, watchlist[i].title) \in announced
          /\ watchlist[i].last_checked > watchlist[i].found_date

\* The outcome of the run's query for entry i.
Searched(i) == {k \in 1..Len(calls) : calls[k].op = "search" /\ calls[k].idx = i}
QueryFailed(i) == \E k \in Searched(i) : ~calls[k].ok

\* C6: in a check run an entry whose query fails keeps its pre-run status,
\* last_checked and found_date; every entry is queried once and those whose
\* query completed are stamped; the watchlist is saved and the exit code is 0.
C6_FailedQuerySkipsEntry ==
    /\ pc = "loop" =>
          \A i \in 1..(idx - 1) :
              /\ Cardinality(Searched(i)) = 1
              /\ QueryFailed(i) => watchlist[i] = Persisted[i]
              /\ ~QueryFailed(i) => watchlist[i].last_checked = Now
    /\ CheckReturned =>
          /\ idx = total + 1
          /\ \A i \in 1..total : Cardinality(Searched(i)) = 1
          /\ calls[Len(calls)].op = "save"
          /\ Persisted = watchlist
          /\ rc = 0

\* A returned run over two entries whose first query failed and whose second
\* completed: the first entry is as it was, the second is stamped today.
C6_Witness ==
    /\ CheckReturned
    /\ total = 2
    /\ QueryFailed(1)
    /\ ~QueryFailed(2)
    /\ Persisted[1].last_checked # Now
    /\ Persisted[1].last_status = "found"
    /\ Persisted[2].last_checked = Now
    /\ rc = 0

\* C7: no two entries of a persisted watchlist have titles that are equal
\* ignoring case.
C7_TitlesUnique ==
    \A f \in Paths :
        \A i, j \in 1..Len(disk[f].books) :
            i # j => Lower(disk[f].books[i].title) # Lower(disk[f].books[j].title)

\* watch was given a title that differs only in case from a watched one.
C7_Witness ==
    /\ pc = "idle"
    /\ args.command = "watch"
    /\ \E i \in 1..Len(Persisted) :
          /\ Persisted[i].title # args.title
          /\ Lower(Persisted[i].title) = Lower(args.title)

\* C8: watch on a title already present (ignoring case) leaves the persisted
\* watchlist unchanged and returns 0.
C8_WatchPresentIsNoOp ==
    [][(/\ CommandStep("watch")
        /\ \E i \in 1..Len(load_watchlist(disk, args'.profile)) :
              Lower(load_watchlist(disk, args'.profile)[i].title) = Lower(args'.title))
          => disk' = disk /\ rc' = 0]_vars

\* watch returned on a present title whose entry has another author and
\* library and has been checked and found.
C8_Witness ==
    /\ pc = "idle"
    /\ args.command = "watch"
    /\ stdout = <<Line("Already watching", args.title, 0)>>
    /\ \E i \in 1..Len(Persisted) :
          /\ Lower(Persisted[i].title) = Lower(args.title)
          /\ Persisted[i].author # args.author
          /\ Persisted[i].library # args.library
          /\ Persisted[i].last_status = "found"
          /\ Persisted[i].added # Today

\* C9: unwatch on a title matching no entry (ignoring case) returns 1 and
\* leaves the persisted watchlist unchanged; unwatch returns 0 exactly when
\* it removed at least one entry.
C9_UnwatchExitCode ==
    [][CommandStep("unwatch") =>
          LET before == load_watchlist(disk, args'.profile)
              after == load_watchlist(disk', args'.profile)
              present == \E i \in 1..Len(before) :
                            Lower(before[i].title) = Lower(args'.title)
          IN  /\ ~present => rc' = 1 /\ disk' = disk
              /\ rc' = 0 <=> Len(after) < Len(before)
              /\ rc' \in {0, 1}]_vars

\* unwatch returned 1 on a non-empty watchlist.
C9_Witness ==
    /\ pc = "idle"
    /\ args.command = "unwatch"
    /\ rc = 1
    /\ Persisted # <<>>

\* C10: after a completed query the entry's status is FOUND if and only if
\* the response held an owned item whose title matches, whatever the status
\* was and whatever the items' availability; the loop body changes no other
\* entry.
C10_StatusIffGenuine ==
    /\ [](InLoop =>
            \A r \in Responses :
                ~r.failed =>
                    BookAfter(watchlist[idx], r).last_status =
                        IF GenuineIn(watchlist[idx].title, r.items)
                        THEN "found" ELSE "not_found")
    /\ [][InLoop =>
            /\ \E r \in Responses : watchlist'[idx] = BookAfter(watchlist[idx], r)
            /\ \A j \in 1..total : j # idx => watchlist'[j] = watchlist[j]]_vars

\* An entry is FOUND on an item that is not available, and an entry that was
\* FOUND is NOT_FOUND after its query completed.
C10_Witness ==
    /\ pc = "loop"
    /\ \E k \in 1..Len(new_finds) :
          /\ ~new_finds[k].item.isAvailable
          /\ watchlist[new_finds[k].book].last_status = "found"
    /\ \E i \in 1..(idx - 1) :
          /\ Persisted[i].last_status = "found"
          /\ watchlist[i].last_status = "not_found"

\* C11: a check run writes nothing before its final save: from its load on and
\* while it is in the loop, no save has been made, no step changes any file,
\* and the persisted document still holds, entry for entry, what the run
\* loaded (the entries the loop has not reached yet are the loaded ones).
C11_NoPartialPersistence ==
    /\ [](pc = "loop" =>
            /\ Count("save") = 0
            /\ Len(Persisted) = total
            /\ \A i \in idx..total : Persisted[i] = watchlist[i])
    /\ [][pc' = "loop" => disk' = disk]_vars

\* The loop is over, the run has changed an entry in memory, and the file
\* still holds the entry as loaded.
C11_Witness ==
    /\ LoopDone
    /\ \E i \in 1..total : /\ watchlist[i].last_status = "found"
                            /\ Persisted[i].last_status = "not_found"
                            /\ Persisted[i].last_checked = None

\* C12: no step of an invocation changes the persisted watchlist of a profile
\* other than its own, the unscoped default watchlist counting as a profile of
\* its own: the file another profile loads from is the same before and after.
C12_ProfileIsolation ==
    [][\A q \in Profiles :
          q # args'.profile =>
              disk'[get_watchlist_path(q)] = disk[get_watchlist_path(q)]]_vars

\* A check run with --profile kid has saved a found book while the default
\* watchlist holds a book never checked.
C12_Witness ==
    /\ CheckReturned
    /\ args.profile = "kid"
    /\ load_watchlist(disk, "kid")[1].last_status = "found"
    /\ Len(load_watchlist(disk, NoProfile)) = 1
    /\ load_watchlist(disk, NoProfile)[1].last_checked = None

\* C13: within one check run a pause lies between any two consecutive
\* catalogue queries, whether the earlier one completed or failed: in the run's
\* sequence of calls, a query that is followed by a later query is followed
\* immediately by a sleep.
C13_PauseBetweenQueries ==
    \A k \in 1..Len(calls) :
        (/\ calls[k].op = "search"
         /\ \E j \in (k + 1)..Len(calls) : calls[j].op = "search")
        => calls[k + 1].op = "sleep"

\* The document a finishing check run leaves on disk.
Saved == load_watchlist(disk', args.profile)

\* Two entries agree on everything but status, last_checked and found_date.
SameBook(x, y) ==
    /\ DOMAIN x = DOMAIN y
    /\ x.title = y.title
    /\ x.author = y.author
    /\ x.library = y.library
    /\ x.added = y.added

\* C14: a check run changes only status, last_checked and found_date: the
\* document in the run's hands, and the document it saves, have as many
\* entries as the one it loaded, and the entry at each position has the same
\* title, author, library and added date.
C14_CheckKeepsIdentity ==
    /\ [](pc = "loop" =>
            /\ Len(watchlist) = Len(Persisted)
            /\ \A i \in 1..Len(Persisted) : SameBook(watchlist[i], Persisted[i]))
    /\ [][(LoopDone /\ pc' = "idle") =>
            /\ Len(Saved) = Len(Persisted)
            /\ \A i \in 1..Len(Persisted) : SameBook(Saved[i], Persisted[i])]_vars

\* A run over two entries added on an earlier day has returned, having stamped
\* both and changed the status of the first.
C14_Witness ==
    /\ CheckReturned
    /\ Len(Persisted) = 2
    /\ \A i \in 1..2 : Persisted[i].last_checked = clock /\ Persisted[i].added < clock
    /\ Persisted[1].last_status = "found"
    /\ Persisted[2].author = "fh"

\* C15: no check run clears a found_date: an entry whose persisted found_date
\* is non-null when the run saves has a non-null found_date in the saved
\* document, whatever its new status.
C15_FoundDateNeverCleared ==
    [][(LoopDone /\ pc' = "idle") =>
        \A i \in 1..Len(Persisted) :
            Persisted[i].found_date # None => Saved[i].found_date # None]_vars

\* A run has returned after taking a book that was found on an earlier day
\* back to not_found, and the book keeps that day as its found_date.
C15_Witness ==
    /\ CheckReturned
    /\ \E i \in 1..Len(Persisted) :
           /\ Persisted[i].last_status = "not_found"
           /\ Persisted[i].last_checked = clock
           /\ Persisted[i].found_date # None
           /\ Persisted[i].found_date < clock

\* The queries a run has issued, in the order it issued them.
Queries == SelectSeq(calls, LAMBDA c : c.op = "search")

\* Item k of the response is owned and title-matching, and no earlier item is.
FirstGenuine(title, items, k) ==
    /\ title_matches(title, items[k].title) /\ items[k].isOwned
    /\ \A j \in 1..(k - 1) : ~(title_matches(title, items[j].title) /\ items[j].isOwned)

\* C16: a check run over N entries queries the entries one by one in watchlist
\* order, once each, and then ends with a single save as its last call: in the
\* loop the k-th query so far is for entry k and every step moves on to the
\* next entry; past the last entry the only step is the return, with N queries
\* and one save made; and a run in its loop does return. new_finds lists entries in watchlist order, and whatever
\* the response, an entry appended to it is the one at hand, paired with the
\* first item of the response that is owned and title-matching.
C16_CheckRunOrder ==
    /\ [](pc = "loop" =>
            /\ Len(Queries) = idx - 1
            /\ \A k \in 1..Len(Queries) : Queries[k].idx = k
            /\ Count("save") = 0)
    /\ [](CheckReturned =>
            /\ Len(Queries) = total
            /\ \A k \in 1..total : Queries[k].idx = k
            /\ Count("save") = 1
            /\ calls[Len(calls)].op = "save")
    /\ [](\A k \in 1..(Len(new_finds) - 1) : new_finds[k].book < new_finds[k + 1].book)
    /\ [](InLoop =>
            \A r \in Responses :
                LET after == FindsAfter(new_finds, watchlist[idx], idx, r)
                IN  after # new_finds =>
                        \E k \in 1..Len(r.items) :
                            /\ FirstGenuine(watchlist[idx].title, r.items, k)
                            /\ after = Append(new_finds, [book |-> idx, item |-> r.items[k]]))
    /\ [][InLoop => (idx' = idx + 1 /\ pc' = "loop" /\ total' = total)]_vars
    /\ [][LoopDone => (pc' = "idle" /\ Len(calls') = Len(calls) + 1)]_vars
    /\ (pc = "loop") ~> CheckReturned

\* A run over two entries has returned with both as new finds, in watchlist
\* order, the first paired with an edition that has no copy available.
C16_Witness ==
    /\ CheckReturned
    /\ total = 2
    /\ Len(new_finds) = 2
    /\ new_finds[1].book = 1 /\ new_finds[2].book = 2
    /\ ~new_finds[1].item.isAvailable
    /\ Count("sleep") = 1

\* A check run and a watch have both finished, and their load-to-save spans
\* overlapped.
BothFinished == CheckReturned /\ other.pc = "saved" /\ other.overlap

Titles(books) == {books[i].title : i \in 1..Len(books)}

\* C17: when a watch and a check run on the same watchlist overlap, the
\* persisted watchlist after both have finished is the document of the one
\* that saved last, whole and unmerged: when the check run saved last it is
\* the run's document and the watched title is not in it; when the watch
\* saved last it is the watch's document, the one it loaded plus its entry,
\* with none of what the run wrote after that load. The watch's save writes
\* the document in its hands, which without an overlap is the persisted one
\* plus its entry.
C17_LastWriterWins ==
    /\ [](BothFinished /\ other.last = "check" =>
            /\ Persisted = watchlist
            /\ other.title \notin Titles(Persisted))
    /\ [](BothFinished /\ other.last = "watch" => Persisted = other.books)
    /\ [][(other.pc = "loaded" /\ other'.pc = "saved") =>
            /\ load_watchlist(disk', NoProfile) = other.books
            /\ load_watchlist(disk, NoProfile) = SubSeq(other.books, 1, Len(other.books) - 1)
               \/ other.overlap]_vars

\* The watch loaded and saved while the check run was in its loop; the run
\* then saved and the watched title is gone.
C17_Witness ==
    /\ BothFinished
    /\ other.last = "check"
    /\ other.title = Em
    /\ Persisted[1].last_status = "found"

\* The check run saved a find while the watch held its document; the watch
\* then saved and the find is gone.
C17_WitnessCheckLost ==
    /\ BothFinished
    /\ other.last = "watch"
    /\ watchlist[1].last_status = "found"
    /\ Persisted[1].last_status = "not_found"
    /\ Persisted[1].last_checked = None

\* C18: starting from an empty watchlist and running watch, unwatch and check
\* one after the other, every persisted entry whose status is found has a
\* found_date and a last_checked, and every persisted entry with a found_date
\* has a last_checked.
C18_FoundImpliesDates ==
    \A f \in Paths : \A i \in 1..Len(disk[f].books) :
        LET b == disk[f].books[i]
        IN  /\ b.last_status = "found" => (b.found_date # None /\ b.last_checked # None)
            /\ b.found_date # None => b.last_checked # None

\* The persisted watchlist holds a found entry and an entry that went back to
\* not_found after a find.
C18_Witness ==
    /\ pc = "idle"
    /\ Len(Persisted) = 2
    /\ Persisted[1].last_status = "found" /\ Persisted[1].found_date # None
    /\ Persisted[2].last_status = "not_found" /\ Persisted[2].found_date # None

\* The k-th smallest member of a set of positions.
Nth(S, k) == CHOOSE i \in S : Cardinality({j \in S : j <= i}) = k

\* C19: an unwatch that returns 0 leaves on disk the loaded entries whose
\* title differs from the given one when case is ignored, and only those:
\* at least one entry is gone, no kept entry has the title, and the kept
\* entries are the loaded records, field for field, in their original order.
\* No other file changes.
C19_UnwatchRemovesOnlyTitle ==
    [][(CommandStep("unwatch") /\ rc' = 0) =>
          LET before == load_watchlist(disk, args'.profile)
              after == load_watchlist(disk', args'.profile)
              keep == {i \in 1..Len(before) : Lower(before[i].title) # Lower(args'.title)}
          IN  /\ Cardinality(keep) < Len(before)
              /\ Len(after) = Cardinality(keep)
              /\ \A k \in 1..Len(after) : after[k] = before[Nth(keep, k)]
              /\ \A f \in Paths : f # get_watchlist_path(args'.profile) => disk'[f] = disk[f]]_vars

\* unwatch, given a title in another case than watched, has removed the
\* middle one of three entries: the two left, in their order, are a found
\* entry and a checked one.
C19_Witness ==
    /\ pc = "idle"
    /\ args.command = "unwatch"
    /\ rc = 0
    /\ args.title \notin {Du, Em, Un}
    /\ Len(Persisted) = 2
    /\ Persisted[1].title = Un
    /\ Persisted[1].last_status = "found"
    /\ Persisted[2].title = Em
    /\ Persisted[2].last_checked # None

\* A title with its letters in lower case and the blanks at its two ends
\* cut off: what lies between its first and its last non-blank character.
Normal(s) ==
    LET inked == {i \in 1..Len(s) : s[i] \notin {" ", "\t", "\n"}}
    IN  IF inked = {} THEN <<>>
        ELSE LET lo == CHOOSE i \in inked : \A j \in inked : i <= j
                 hi == CHOOSE i \in inked : \A j \in inked : j <= i
             IN  [k \in 1..(hi - lo + 1) |-> LowerChar(s[lo + k - 1])]

\* x occurs in y as a run of consecutive characters.
Substring(x, y) ==
    \E p \in 0..Len(y) : /\ p + Len(x) <= Len(y)
                          /\ \A k \in 1..Len(x) : y[p + k] = x[k]

Dune == <<"D", "u", "n", "e">>
DuneMessiah == <<"D", "u", "n", "e", " ", "M", "e", "s", "s", "i", "a", "h">>
TheHobbit == <<"T", "h", "e", " ", "H", "o", "b", "b", "i", "t">>
hobbit == <<"h", "o", "b", "b", "i", "t">>
Foo == <<"F", "o", "o">>
Bar == <<"B", "a", "r">>

\* C20: title_matches is symmetric and containment-based: the value it
\* returns for (a, b) is the value it returns for (b, a), and it is true
\* exactly when, both titles lower-cased and trimmed, one is a substring of
\* the other. It holds of ("Dune", "Dune Messiah") and of ("The Hobbit",
\* "hobbit"), and not of ("Foo", "Bar").
C20_MatchSymmetricContainment ==
    probe.done =>
        /\ probe.result = title_matches(probe.b, probe.a)
        /\ probe.result = (\/ Substring(Normal(probe.a), Normal(probe.b))
                           \/ Substring(Normal(probe.b), Normal(probe.a)))
        /\ title_matches(Dune, DuneMessiah)
        /\ title_matches(TheHobbit, hobbit)
        /\ ~title_matches(Foo, Bar)

\* title_matches returned true for a search title that holds the result
\* title only once case and the leading blank are set aside.
C20_Witness ==
    /\ probe.done
    /\ probe.result
    /\ probe.a = <<" ", "D", "u">>
    /\ probe.b = <<"d">>

====
